---- MODULE Spec2Model ----
(***************************************************************************)
(* Restricted three-body effective potential maps:                         *)
(*   src/Gemini3Pro/earth-sun-system.py    (global map)                    *)
(*   src/Gemini3Pro/earth-L1-L2-zoom.py    (zoom map)                      *)
(*   src/Gemini3Pro/solar-archipelago.py   (composite multi-well map)      *)
(*                                                                         *)
(* Real numbers are modelled as decimal fixed-point numbers with twelve    *)
(* fractional digits: a number is a sign and a magnitude counted in units  *)
(* of 10^-12.  TLC's integers are 32 bits wide, so a magnitude is kept as  *)
(* a sequence of limbs in base BASE, least significant limb first.         *)
(* Every arithmetic operation is computed exactly on the integers and then *)
(* rounded towards zero to the unit, the way a floating-point operation    *)
(* rounds its exact result.  A square below 10^-12 rounds to zero: that is *)
(* a distance below 10^-6, the floor of the single-body evaluators.        *)
(***************************************************************************)
EXTENDS Integers, Sequences, FiniteSets, TLC

BASE == 10 ^ 4

\* TLC computes an operand when it is first used, nested inside everything
\* around that use.  The operators below therefore look at their operands
\* first (an operand that is zero or empty is an early result), so that the
\* nesting of a long computation stays shallow.  An intermediate result that
\* is used more than once is handed to an operator of its own as an operand,
\* which is computed once.

\* Step(st, i) applied for i = lo, lo+1, ..., hi in turn, starting from st,
\* for lo <= hi.  The range is halved so that the nesting is logarithmic, and
\* st is compared with itself to have it computed before a step is entered.
RECURSIVE Fold(_, _, _, _)
Fold(Step(_, _), st, lo, hi) ==
  IF st = st /\ lo = hi THEN Step(st, lo)
  ELSE Fold(Step, Fold(Step, st, lo, (lo + hi) \div 2),
            (lo + hi) \div 2 + 1, hi)

MaxI(i, j) == IF i >= j THEN i ELSE j
MinI(i, j) == IF i <= j THEN i ELSE j

\* ------------------------------------------------------------------------
\* Magnitudes: natural numbers below 10^32 as limb sequences, least
\* significant first, without high zero limbs (zero is the empty sequence).
\* Carries are resolved by lookahead, so that sums and products need no
\* recursion.
\* ------------------------------------------------------------------------

\* A function on 1..n as a tuple.  TLC keeps [k \in S |-> e] as a rule and
\* computes e again at every application; the concatenation tabulates it.
Tup(f) == f \o <<>>

Limb(a, i) == IF i >= 1 /\ i <= Len(a) THEN a[i] ELSE 0

Trim(a) ==
  SubSeq(a, 1, CHOOSE n \in 0..Len(a) :
                 /\ n = 0 \/ a[n] # 0
                 /\ \A j \in (n + 1)..Len(a) : a[j] = 0)

FromNat(n) ==
  Trim(<<n % BASE, (n \div BASE) % BASE, n \div (BASE * BASE)>>)

\* a * BASE^n
Shift(a, n) == IF a = <<>> THEN a ELSE Tup([i \in 1..n |-> 0]) \o a

\* The limbs of the number whose column sums (each below BASE^3) are col:
\* each sum is spread over three columns, what is left over two (r), and then
\* a column passes at most a carry of one, which it generates (r >= BASE) or
\* propagates (r = BASE - 1).
Spread3(col) ==
  Tup([k \in 1..(Len(col) + 2) |->
         (Limb(col, k) % BASE) + ((Limb(col, k - 1) \div BASE) % BASE)
         + (Limb(col, k - 2) \div (BASE * BASE))])

Spread2(t) ==
  Tup([k \in 1..(Len(t) + 1) |->
         (Limb(t, k) % BASE) + (Limb(t, k - 1) \div BASE)])

Carries(r) ==
  Tup([k \in 1..Len(r) |->
         IF \E j \in 1..(k - 1) :
              r[j] >= BASE /\ \A m \in (j + 1)..(k - 1) : r[m] = BASE - 1
         THEN 1 ELSE 0])

AddCarries(r, carry) ==
  Trim(Tup([k \in 1..Len(r) |-> (r[k] + carry[k]) % BASE]))

Propagate(r) == AddCarries(r, Carries(r))

Resolve(col) == Propagate(Spread2(Spread3(col)))

MAdd(a, b) ==
  IF a = <<>> THEN b
  ELSE IF b = <<>> THEN a
  ELSE Resolve(Tup([k \in 1..MaxI(Len(a), Len(b)) |->
                      Limb(a, k) + Limb(b, k)]))

\* a - b for a >= b: a column borrows when a lower one is negative and those
\* between are zero.
Borrows(d) ==
  Tup([k \in 1..Len(d) |->
         IF \E j \in 1..(k - 1) :
              d[j] < 0 /\ \A m \in (j + 1)..(k - 1) : d[m] = 0
         THEN 1 ELSE 0])

SubBorrows(d, borrow) ==
  Trim(Tup([k \in 1..Len(d) |-> (d[k] - borrow[k] + BASE) % BASE]))

Settle(d) == SubBorrows(d, Borrows(d))

MSub(a, b) ==
  IF a = <<>> \/ b = <<>> THEN a
  ELSE Settle(Tup([k \in 1..Len(a) |-> a[k] - Limb(b, k)]))

\* -1, 0, 1 as a < b, a = b, a > b: the highest limb that differs decides
MCmp(a, b) ==
  IF Len(a) > Len(b) THEN 1
  ELSE IF Len(a) < Len(b) THEN -1
  ELSE IF a = b THEN 0
  ELSE LET i == CHOOSE i \in 1..Len(a) :
                  a[i] # b[i] /\ \A j \in (i + 1)..Len(a) : a[j] = b[j]
       IN  IF a[i] > b[i] THEN 1 ELSE -1

MLe(a, b) == MCmp(a, b) <= 0

\* The product, a the shorter operand, of at most eight limbs.
MulShort(a, b) ==
  LET P(i, k) == Limb(a, i) * Limb(b, k + 1 - i)
  IN  Resolve(Tup([k \in 1..(Len(a) + Len(b)) |->
                     ((P(1, k) + P(2, k)) + (P(3, k) + P(4, k)))
                     + ((P(5, k) + P(6, k)) + (P(7, k) + P(8, k)))]))

MMul(a, b) ==
  IF a = <<>> \/ b = <<>> THEN <<>>
  ELSE IF Len(a) <= Len(b) THEN MulShort(a, b) ELSE MulShort(b, a)

\* Long division by a divisor b of two limbs or more whose top limb is at
\* least BASE / 2, from the top limb of a downwards; st = <<quotient limbs,
\* running remainder (below b)>>.  The two top limbs of the remainder r over
\* the top limb of b overestimate a quotient limb e by two at most; p = e * b.
RECURSIVE QuotientLimb(_, _, _, _, _)
QuotientLimb(q, r, b, e, p) ==
  IF MLe(p, r) THEN <<(<<e>> \o q), MSub(r, p)>>
  ELSE QuotientLimb(q, r, b, e - 1, MSub(p, b))

Estimate(q, r, b, e) == QuotientLimb(q, r, b, e, MMul(b, <<e>>))

BringDown(q, r, b) ==
  Estimate(q, r, b,
           MinI(BASE - 1,
                (Limb(r, Len(b) + 1) * BASE + Limb(r, Len(b))) \div b[Len(b)]))

TrimQuotient(qr) == <<Trim(qr[1]), qr[2]>>

LongDiv(a, b) ==
  IF MCmp(a, b) < 0 THEN <<<<>>, a>>
  ELSE LET Down(st, j) ==
             BringDown(st[1], Trim(<<a[Len(a) + 1 - j]>> \o st[2]), b)
       IN  TrimQuotient(Fold(Down, <<<<>>, <<>>>>, 1, Len(a)))

\* Division by a single limb d: each quotient limb is an integer division;
\* st = <<quotient limbs, running remainder (an integer below d)>>.
ShortDiv(a, d) ==
  IF a = <<>> THEN <<a, 0>>
  ELSE LET Down(st, j) ==
             <<(<<(st[2] * BASE + a[Len(a) + 1 - j]) \div d>> \o st[1]),
               (st[2] * BASE + a[Len(a) + 1 - j]) % d>>
       IN  TrimQuotient(Fold(Down, <<<<>>, 0>>, 1, Len(a)))

\* <<floor(a / b), a mod b>> for b > 0.  Before a long division both
\* operands are multiplied by k = BASE / (top limb of b + 1): the quotient is
\* the same and the divisor's top limb is large.
ShortResult(qr) == <<qr[1], FromNat(qr[2])>>

ScaledResult(qr, k) == <<qr[1], ShortDiv(qr[2], k)[1]>>

ScaledDiv(a, b, k) == ScaledResult(LongDiv(MMul(a, <<k>>), MMul(b, <<k>>)), k)

DivMod(a, b) ==
  IF a = <<>> THEN <<a, a>>
  ELSE IF Len(b) = 1 THEN ShortResult(ShortDiv(a, b[1]))
  ELSE ScaledDiv(a, b, BASE \div (b[Len(b)] + 1))

MDiv(a, b) == DivMod(a, b)[1]
MMod(a, b) == DivMod(a, b)[2]

MPow(q, k) == IF k = 2 THEN MMul(q, q) ELSE MMul(q, MMul(q, q))

\* floor of the k-th root of a, k in {2, 3}.  Newton's iteration
\* x <- ((k-1) x + a / x^(k-1)) / k descends from a start above the root and
\* stops at it.  The start: a < (top + 1) * BASE^(k q + s) with top the
\* highest limb and s < k, so the root is below 2^e * c * BASE^q for
\* 2^(k e) > top and c^k >= BASE^s; it is less than three times the root,
\* and twelve steps reach the root of a magnitude below BASE^12.
RootStart(a, k) ==
  LET s == (Len(a) - 1) % k
      e == CHOOSE e \in 1..7 : 2 ^ (k * e) > a[Len(a)]
                               /\ (e = 1 \/ 2 ^ (k * (e - 1)) <= a[Len(a)])
      c == IF s = 0 THEN 1
           ELSE IF k = 2 THEN 100
           ELSE IF s = 1 THEN 22 ELSE 465
  IN  Shift(FromNat((2 ^ e) * c), (Len(a) - 1) \div k)

MRoot(a, k) ==
  LET Newton(x, i) ==
        IF MLe(MPow(x, k), a) THEN x
        ELSE MDiv(MAdd(MMul(x, <<k - 1>>),
                       MDiv(a, IF k = 2 THEN x ELSE MMul(x, x))), <<k>>)
  IN  IF a = <<>> THEN a ELSE Fold(Newton, RootStart(a, k), 1, 12)

\* ------------------------------------------------------------------------
\* Numbers: a finite number is a sign s (1 or -1, zero has sign 1) and a
\* magnitude m in units of 10^-12; a number that is not finite (fin = FALSE)
\* is an infinity (s = 1 or -1) or a NaN (s = 0).
\* ------------------------------------------------------------------------

\* a * 10^12 and floor(a / 10^12): 10^12 is BASE^3
TimesUnit(a) == Shift(a, 3)
OverUnit(a) == SubSeq(a, 4, Len(a))

Num(s, m) == [fin |-> TRUE, s |-> IF m = <<>> THEN 1 ELSE s, m |-> m]

\* The decimal n * 10^-e, for an integer n and 0 <= e <= 12 with
\* |n| * 10^((12 - e) mod 4) < 2^31.
Dec(n, e) ==
  Num(IF n < 0 THEN -1 ELSE 1,
      Shift(FromNat((IF n < 0 THEN -n ELSE n) * 10 ^ ((12 - e) % 4)),
            (12 - e) \div 4))

Zero == [fin |-> TRUE, s |-> 1, m |-> <<>>]
One == [fin |-> TRUE, s |-> 1, m |-> <<0, 0, 0, 1>>]
Half == [fin |-> TRUE, s |-> 1, m |-> <<0, 0, 5000>>]
PosInf == [fin |-> FALSE, s |-> 1, m |-> <<>>]
NegInf == [fin |-> FALSE, s |-> -1, m |-> <<>>]
NaN == [fin |-> FALSE, s |-> 0, m |-> <<>>]

IsFinite(a) == a.fin
IsZero(a) == a.fin /\ a.m = <<>>
Inf(s) == IF s = 0 THEN NaN ELSE IF s = 1 THEN PosInf ELSE NegInf

Neg(a) == IF a.fin THEN Num(-a.s, a.m) ELSE Inf(-a.s)

\* IEEE sums: inf + (-inf) is a NaN, a NaN stays one
Add(a, b) ==
  IF ~a.fin /\ ~b.fin THEN (IF a.s = b.s THEN a ELSE NaN)
  ELSE IF ~a.fin THEN a
  ELSE IF ~b.fin THEN b
  ELSE IF a.s = b.s THEN Num(a.s, MAdd(a.m, b.m))
  ELSE IF MCmp(a.m, b.m) >= 0 THEN Num(a.s, MSub(a.m, b.m))
  ELSE Num(b.s, MSub(b.m, a.m))

Sub(a, b) == Add(a, Neg(b))

\* Order of finite numbers.
Lt(a, b) ==
  IF a.s # b.s THEN a.s < b.s
  ELSE IF a.s = 1 THEN MCmp(a.m, b.m) < 0
  ELSE MCmp(a.m, b.m) > 0

Le(a, b) == ~Lt(b, a)

\* IEEE products: inf * 0 is a NaN
Mul(a, b) ==
  IF a.fin /\ b.fin THEN Num(a.s * b.s, OverUnit(MMul(a.m, b.m)))
  ELSE IF IsZero(a) \/ IsZero(b) THEN NaN
  ELSE Inf(a.s * b.s)

\* IEEE quotients: x/0 = +-inf and 0/0 = NaN (numpy warns and goes on; a
\* zero divisor here is a +0, it is a square root), x/inf = 0, inf/inf = NaN
Div(a, b) ==
  IF a.fin /\ b.fin
  THEN IF b.m = <<>> THEN (IF a.m = <<>> THEN NaN ELSE Inf(a.s))
       ELSE Num(a.s * b.s, MDiv(TimesUnit(a.m), b.m))
  ELSE IF ~a.fin /\ ~b.fin THEN NaN
  ELSE IF a.fin THEN (IF b.s = 0 THEN NaN ELSE Zero)
  ELSE Inf(a.s * b.s)

Sq(a) == Mul(a, a)

\* np.sqrt of a finite number >= 0
Sqrt(a) == IF IsZero(a) THEN a ELSE Num(1, MRoot(TimesUnit(a.m), 2))

\* a ** (1/3) of a finite number >= 0
Cbrt(a) ==
  IF IsZero(a) THEN a ELSE Num(1, MRoot(TimesUnit(TimesUnit(a.m)), 3))

\* np.maximum of finite numbers
Maximum(a, b) == IF Lt(a, b) THEN b ELSE a

\* Python's and numpy's a % b for finite a and b > 0: the result is in [0, b)
FloorMod(a, b, r) ==
  IF a.s = 1 \/ r = <<>> THEN Num(1, r) ELSE Num(1, MSub(b.m, r))

Mod(a, b) == FloorMod(a, b, MMod(a.m, b.m))

\* The sum of a power series, st = <<term, sum so far, n>>: the term after t
\* is t * step / (n+1) (by = 1, the exponential series) or
\* t * step / ((n+1)(n+2)) (by = 2, the cosine and sine series); a term that
\* rounds to zero ends the sum.
SeriesStep(st, step, by) ==
  IF IsZero(st[1]) THEN st
  ELSE <<Div(Mul(st[1], step),
             Dec(IF by = 2 THEN (st[3] + 1) * (st[3] + 2) ELSE st[3] + 1, 0)),
         Add(st[2], st[1]),
         st[3] + by>>

Series(t, step, n, by) ==
  LET Step(st, i) == SeriesStep(st, step, by)
  IN  IF IsZero(step) THEN t ELSE Fold(Step, <<t, Zero, n>>, 1, 16)[2]

\* a^(2^k)
SqTimes(a, k) == LET Step(st, i) == Sq(st) IN Fold(Step, a, 1, k)

\* np.exp of a number <= 0: 1 / (e^(q/32))^32 for q = -a; e^-21 is below the
\* unit.
Reciprocal32(e) == IF IsZero(e) THEN e ELSE Div(One, SqTimes(e, 5))

Exp(a) ==
  IF ~Lt(Dec(-21, 0), a) THEN Zero
  ELSE Reciprocal32(Series(One, Div(Neg(a), Dec(32, 0)), 0, 1))

LN2 == [fin |-> TRUE, s |-> 1, m |-> <<560, 4718, 6931>>]

\* ln of a number in [2/3, 4/3]: 2 atanh(z) for z = (a-1)/(a+1), the sum of
\* z^n / n over the odd n; st = <<z^n, sum so far, n>>.
AtanhStep(st, z2) ==
  IF IsZero(st[1]) THEN st
  ELSE <<Mul(st[1], z2), Add(st[2], Div(st[1], Dec(st[3], 0))), st[3] + 2>>

AtanhSeries(z, z2) ==
  LET Step(st, i) == AtanhStep(st, z2)
  IN  Fold(Step, <<z, Zero, 1>>, 1, 16)[2]

TwiceAtanh(z) ==
  IF IsZero(z) THEN z ELSE Mul(Dec(2, 0), AtanhSeries(z, Sq(z)))

LnNear1(a) == TwiceAtanh(Div(Sub(a, One), Add(a, One)))

\* np.log of a number > 0
RECURSIVE Ln(_)
Ln(a) ==
  IF Lt(Dec(1333333, 6), a) THEN Add(LN2, Ln(Mul(a, Half)))
  ELSE IF Lt(a, Dec(666667, 6)) THEN Sub(Ln(Mul(a, Dec(2, 0))), LN2)
  ELSE LnNear1(a)

PI == [fin |-> TRUE, s |-> 1, m |-> <<3590, 9265, 1415, 3>>]
TWO_PI == [fin |-> TRUE, s |-> 1, m |-> <<7180, 8530, 2831, 6>>]

\* np.cos and np.sin of an angle in [-pi, pi]
Cos(a) == Series(One, Neg(Sq(a)), 0, 2)
Sin(a) == Series(a, Neg(Sq(a)), 1, 2)

\* ------------------------------------------------------------------------
\* numpy arrays of at most two dimensions: a shape and the elements in row
\* order; a Python float is an array of shape <<>>.  An operation on two
\* arrays broadcasts them: the shapes are aligned at the last dimension, a
\* missing dimension counts as 1, and two dimensions go together when they
\* are equal or one of them is 1; otherwise the operation raises ValueError
\* ("operands could not be broadcast together") and so does everything that
\* was to use its result.
\* ------------------------------------------------------------------------

Arr(shape, val) == [err |-> FALSE, shape |-> shape, val |-> val]
Scalar(v) == Arr(<<>>, <<v>>)
ValueError == [err |-> TRUE, shape |-> <<>>, val |-> <<>>]

Pad(s) ==
  IF Len(s) = 0 THEN <<1, 1>> ELSE IF Len(s) = 1 THEN <<1, s[1]>> ELSE s

CompatibleStrict(a, b) == a = b

Compatible(a, b) ==
  \A d \in 1..2 : Pad(a)[d] = Pad(b)[d] \/ Pad(a)[d] = 1 \/ Pad(b)[d] = 1

BroadcastShape(a, b) ==
  LET n == MaxI(Len(a), Len(b))
      full == <<MaxI(Pad(a)[1], Pad(b)[1]), MaxI(Pad(a)[2], Pad(b)[2])>>
  IN  SubSeq(full, 3 - n, 2)

Size(shape) == Pad(shape)[1] * Pad(shape)[2]

\* The element of A that lands on place k (in row order) of an array of
\* shape `shape` that A is broadcast to.
At(A, shape, k) ==
  LET i == (k - 1) \div Pad(shape)[2] + 1
      j == ((k - 1) % Pad(shape)[2]) + 1
      r == Pad(A.shape)[1]
      c == Pad(A.shape)[2]
  IN  A.val[((IF r = 1 THEN 1 ELSE i) - 1) * c + (IF c = 1 THEN 1 ELSE j)]

\* An elementwise operation on one array, and on two
Map1(Op(_), A) ==
  IF A.err THEN ValueError
  ELSE Arr(A.shape, Tup([k \in 1..Len(A.val) |-> Op(A.val[k])]))

Map2(Op(_, _), A, B) ==
  IF A.err \/ B.err THEN ValueError
  ELSE IF ~Compatible(A.shape, B.shape) THEN ValueError
  ELSE LET shape == BroadcastShape(A.shape, B.shape)
       IN  Arr(shape, Tup([k \in 1..Size(shape) |->
                             Op(At(A, shape, k), At(B, shape, k))]))

\* np.linspace(a, b, n) for n >= 2, and np.meshgrid(xs, ys): <<X, Y>>, both of
\* shape <<Len(ys), Len(xs)>>
Linspace(a, b, n) ==
  Tup([k \in 1..n |->
         Add(a, Div(Mul(Dec(k - 1, 0), Sub(b, a)), Dec(n - 1, 0)))])

Meshgrid(xs, ys) ==
  <<Arr(<<Len(ys), Len(xs)>>,
        Tup([k \in 1..(Len(xs) * Len(ys)) |-> xs[((k - 1) % Len(xs)) + 1]])),
    Arr(<<Len(ys), Len(xs)>>,
        Tup([k \in 1..(Len(xs) * Len(ys)) |-> ys[(k - 1) \div Len(xs) + 1]]))>>

\* ------------------------------------------------------------------------
\* The evaluators of the effective potential
\* ------------------------------------------------------------------------

\* earth-sun-system.py, calculate_effective_potential(x, y, mu)
calculate_effective_potential_no_floor(x, y, mu_) ==
  LET x1 == Scalar(Neg(mu_))
      x2 == Scalar(Sub(One, mu_))
      r1 == Map2(Maximum,
                 Map1(Sqrt, Map2(Add, Map1(Sq, Map2(Sub, x, x1)), Map1(Sq, y))),
                 Scalar(Dec(1, 6)))
      r2 == Map1(Sqrt, Map2(Add, Map1(Sq, Map2(Sub, x, x2)), Map1(Sq, y)))
  IN  IF r1.err THEN r1
      ELSE IF r2.err THEN r2
      ELSE Map2(Sub,
                Map2(Sub, Map1(Neg, Map2(Div, Scalar(Sub(One, mu_)), r1)),
                          Map2(Div, Scalar(mu_), r2)),
                Map2(Mul, Scalar(Half), Map2(Add, Map1(Sq, x), Map1(Sq, y))))

calculate_effective_potential(x, y, mu_) ==
  LET x1 == Scalar(Neg(mu_))
      x2 == Scalar(Sub(One, mu_))
      r1 == Map2(Maximum,
                 Map1(Sqrt, Map2(Add, Map1(Sq, Map2(Sub, x, x1)), Map1(Sq, y))),
                 Scalar(Dec(1, 6)))
      r2 == Map2(Maximum,
                 Map1(Sqrt, Map2(Add, Map1(Sq, Map2(Sub, x, x2)), Map1(Sq, y))),
                 Scalar(Dec(1, 6)))
  IN  IF r1.err THEN r1
      ELSE IF r2.err THEN r2
      ELSE Map2(Sub,
                Map2(Sub, Map1(Neg, Map2(Div, Scalar(Sub(One, mu_)), r1)),
                          Map2(Div, Scalar(mu_), r2)),
                Map2(Mul, Scalar(Half), Map2(Add, Map1(Sq, x), Map1(Sq, y))))

get_potential_secondary_repels(x, y, mu_) ==
  LET r1 == Map1(Sqrt, Map2(Add, Map1(Sq, Map2(Add, x, Scalar(mu_))),
                                 Map1(Sq, y)))
      r2 == Map2(Maximum,
                 Map1(Sqrt, Map2(Add,
                                 Map1(Sq, Map2(Sub, x, Scalar(Sub(One, mu_)))),
                                 Map1(Sq, y))),
                 Scalar(Dec(1, 6)))
  IN  IF r1.err THEN r1
      ELSE IF r2.err THEN r2
      ELSE Map2(Sub,
                Map2(Add, Map1(Neg, Map2(Div, Scalar(Sub(One, mu_)), r1)),
                          Map2(Div, Scalar(mu_), r2)),
                Map2(Mul, Scalar(Half), Map2(Add, Map1(Sq, x), Map1(Sq, y))))

\* earth-L1-L2-zoom.py, get_potential(x, y, mu): r1 is used as it is
get_potential_y_unsquared(x, y, mu_) ==
  LET r1 == Map1(Sqrt, Map2(Add, Map1(Sq, Map2(Add, x, Scalar(mu_))),
                                 Map1(Sq, y)))
      r2 == Map2(Maximum,
                 Map1(Sqrt, Map2(Add,
                                 Map1(Sq, Map2(Sub, x, Scalar(Sub(One, mu_)))),
                                 Map1(Sq, y))),
                 Scalar(Dec(1, 6)))
  IN  IF r1.err THEN r1
      ELSE IF r2.err THEN r2
      ELSE Map2(Sub,
                Map2(Sub, Map1(Neg, Map2(Div, Scalar(Sub(One, mu_)), r1)),
                          Map2(Div, Scalar(mu_), r2)),
                Map2(Mul, Scalar(Half), Map2(Add, Map1(Sq, x), y)))

get_potential(x, y, mu_) ==
  LET r1 == Map1(Sqrt, Map2(Add, Map1(Sq, Map2(Add, x, Scalar(mu_))),
                                 Map1(Sq, y)))
      r2 == Map2(Maximum,
                 Map1(Sqrt, Map2(Add,
                                 Map1(Sq, Map2(Sub, x, Scalar(Sub(One, mu_)))),
                                 Map1(Sq, y))),
                 Scalar(Dec(1, 6)))
  IN  IF r1.err THEN r1
      ELSE IF r2.err THEN r2
      ELSE Map2(Sub,
                Map2(Sub, Map1(Neg, Map2(Div, Scalar(Sub(One, mu_)), r1)),
                          Map2(Div, Scalar(mu_), r2)),
                Map2(Mul, Scalar(Half), Map2(Add, Map1(Sq, x), Map1(Sq, y))))

\* ------------------------------------------------------------------------
\* Calls of the evaluators.  A behaviour of Spec is one call: the caller
\* holds a mass ratio and two coordinate arrays, one of the two evaluators
\* runs on them, and Z is what it returns (ValueError when it raised).
\* ------------------------------------------------------------------------

VARIABLES mu, X, Y, Z, fn, pc

fieldVars == <<mu, X, Y, Z, fn, pc>>

\* The mass ratio of the two maps (mu, mu_earth) and others inside (0, 1)
MuList ==
  <<Dec(3003, 9), Dec(1, 1), Half, Dec(1215, 5), Dec(9, 1), Dec(954, 6)>>

NMu == 3

MuSamples == {MuList[k] : k \in 1..MinI(NMu, Len(MuList))}

\* Coordinate arrays a caller may pass for the mass ratio m: the bodies'
\* own places, mirrored pairs, grids, and arrays of different shapes
Grids(m) ==
  LET sec == Sub(One, m)
      pri == Neg(m)
      q == Dec(25, 2)
  IN  { <<Scalar(sec), Scalar(Zero)>>,
        <<Scalar(pri), Scalar(Zero)>>,
        <<Arr(<<4>>, <<pri, sec, Half, Half>>),
          Arr(<<4>>, <<Zero, Zero, Dec(3, 1), Dec(-3, 1)>>)>>,
        Meshgrid(Linspace(Dec(98, 2), Dec(102, 2), 5),
                 Linspace(Dec(-2, 2), Dec(2, 2), 5)),
        Meshgrid(<<sec>>, <<Zero>>),
        Meshgrid(<<pri, Half>>, <<Neg(q), q>>),
        <<Arr(<<2, 1>>, <<Half, sec>>), Arr(<<1, 2>>, <<q, Neg(q)>>)>>,
        <<Arr(<<2, 2>>, <<pri, sec, Half, One>>), Scalar(Zero)>>,
        <<Arr(<<3>>, <<pri, sec, Half>>), Arr(<<2, 1>>, <<q, Neg(q)>>)>>,
        <<Arr(<<2>>, <<sec, Half>>), Arr(<<2, 2>>, <<Zero, q, Zero, Neg(q)>>)>>,
        <<Arr(<<3>>, <<pri, sec, Half>>), Arr(<<2>>, <<Zero, q>>)>>,
        <<Arr(<<2, 3>>, <<pri, sec, Half, pri, sec, Half>>),
          Arr(<<2, 2>>, <<Zero, q, Zero, Neg(q)>>)>> }

NoField == Arr(<<0>>, <<>>)

FieldInit ==
  /\ mu \in MuSamples
  /\ \E g \in Grids(mu) : X = g[1] /\ Y = g[2]
  /\ Z = NoField
  /\ fn = "none"
  /\ pc = "call"

\* Z = calculate_effective_potential(X, Y, mu_earth)
CallGlobal ==
  /\ pc = "call"
  /\ Z' = calculate_effective_potential(X, Y, mu)
  /\ fn' = "calculate_effective_potential"
  /\ pc' = "done"
  /\ UNCHANGED <<mu, X, Y>>

\* Z = get_potential(X, Y, mu)
CallZoom ==
  /\ pc = "call"
  /\ Z' = get_potential(X, Y, mu)
  /\ fn' = "get_potential"
  /\ pc' = "done"
  /\ UNCHANGED <<mu, X, Y>>

FieldIdle ==
  /\ X = NoField /\ Y = NoField /\ Z = NoField
  /\ fn = "none" /\ pc = "idle"

\* ------------------------------------------------------------------------
\* The Lagrange points of the two maps.  A behaviour of SpecL runs, for one
\* mass ratio, the statements of the global map that build `points` and the
\* statements of the zoom map that place L1 and L2 and take their levels.
\* ------------------------------------------------------------------------

VARIABLES points, L1_loc, L2_loc, C_L1, C_L2, pcG, pcZ

lagrangeVars == <<points, L1_loc, L2_loc, C_L1, C_L2, pcG, pcZ>>

Unset == NaN

NMuGrid == 20

MuSamplesL ==
  {MuList[k] : k \in 1..Len(MuList)} \cup {Dec(4 * k, 2) : k \in 1..NMuGrid}

LagrangeInit ==
  /\ points = <<>>
  /\ L1_loc = Unset /\ L2_loc = Unset /\ C_L1 = Unset /\ C_L2 = Unset
  /\ pcG = "todo" /\ pcZ = "todo"

LagrangeIdle ==
  /\ points = <<>>
  /\ L1_loc = Unset /\ L2_loc = Unset /\ C_L1 = Unset /\ C_L2 = Unset
  /\ pcG = "idle" /\ pcZ = "idle"

\* earth-sun-system.py: l1_x ... l4_y and the list `points`
GlobalLagrange ==
  /\ pcG = "todo"
  /\ LET l1_x == Sub(One, Cbrt(Div(mu, Dec(3, 0))))
         l2_x == Add(One, Cbrt(Div(mu, Dec(3, 0))))
         l3_x == Sub(Dec(-1, 0), Div(Mul(Dec(5, 0), mu), Dec(12, 0)))
         l4_x == Sub(Half, mu)
         l4_y == Div(Sqrt(Dec(3, 0)), Dec(2, 0))
     IN  points' = << <<l1_x, Zero, "L1">>,
                      <<l2_x, Zero, "L2">>,
                      <<l3_x, Zero, "L3">>,
                      <<l4_x, l4_y, "L4">>,
                      <<l4_x, Neg(l4_y), "L5">> >>
  /\ pcG' = "done"
  /\ UNCHANGED <<L1_loc, L2_loc, C_L1, C_L2, pcZ>>

\* earth-L1-L2-zoom.py: dist_L, L1_loc, L2_loc, C_L1, C_L2
ZoomLagrange ==
  /\ pcZ = "todo"
  /\ LET dist_L == Cbrt(Div(mu, Dec(3, 0)))
     IN  /\ L1_loc' = Sub(Sub(One, mu), dist_L)
         /\ L2_loc' = Add(Sub(One, mu), dist_L)
  /\ C_L1' = get_potential(Scalar(L1_loc'), Scalar(Zero), mu).val[1]
  /\ C_L2' = get_potential(Scalar(L2_loc'), Scalar(Zero), mu).val[1]
  /\ pcZ' = "done"
  /\ UNCHANGED <<points, pcG>>

\* ------------------------------------------------------------------------
\* The composite map (solar-archipelago.py).  Every array of the planet loop
\* has the shape of the screen grid and every operation of the loop is
\* elementwise, so a behaviour of SpecA follows one screen point, given by
\* its physical radius R_phys and its screen angle Theta_scr, through the
\* loop: one iteration per step.
\* ------------------------------------------------------------------------

planets ==
  << [name |-> "Mercury", r |-> Dec(39, 2),  mu |-> Dec(166, 9), angle |-> Zero],
     [name |-> "Venus",   r |-> Dec(72, 2),  mu |-> Dec(245, 8), angle |-> Dec(125, 2)],
     [name |-> "Earth",   r |-> Dec(100, 2), mu |-> Dec(300, 8), angle |-> Dec(251, 2)],
     [name |-> "Mars",    r |-> Dec(152, 2), mu |-> Dec(323, 9), angle |-> Dec(376, 2)],
     [name |-> "Jupiter", r |-> Dec(520, 2), mu |-> Dec(954, 6), angle |-> Dec(502, 2)] >>

VARIABLES R_phys, Theta_scr, Z_comp, done, theta_local, r_local, x_c, y_c,
          r1, r2, pot, l1_E, norm_pot, radial_weight, angular_weight,
          total_weight, hist

archVars == <<R_phys, Theta_scr, Z_comp, done, theta_local, r_local, x_c, y_c,
              r1, r2, pot, l1_E, norm_pot, radial_weight, angular_weight,
              total_weight, hist>>

\* np.arctan2 returns angles in [-pi, pi]: the screen angle of the direction a
Wrap(a) == IF Le(a, PI) THEN a ELSE Sub(a, TWO_PI)

\* The screen point at the orbital radius and angle of planet j, and the one
\* at its local L1 point ((1 - mu) - (mu/3)^(1/3), 0) of its rotating frame
OwnPoints ==
  Tup([j \in 1..Len(planets) |-> <<planets[j].r, Wrap(planets[j].angle)>>])

L1Points ==
  Tup([j \in 1..Len(planets) |->
        <<Mul(planets[j].r,
              Sub(Sub(One, planets[j].mu), Cbrt(Div(planets[j].mu, Dec(3, 0))))),
          Wrap(planets[j].angle)>>])

\* Other screen points, out to the corners of the screen and on both sides of
\* the branch cut of arctan2
OtherPoints ==
  << <<One, PI>>, <<One, Neg(PI)>>, <<Dec(33, 2), Dec(-3, 0)>>,
     <<Dec(52, 1), Zero>>, <<Dec(398, 1), Dec(15, 1)>>,
     <<Dec(152, 2), Dec(-1, 0)>>, <<Dec(72, 2), Dec(3, 0)>>,
     <<Dec(2, 0), Dec(-2, 0)>>, <<Dec(39, 2), Dec(2, 1)>>,
     <<Dec(10, 0), Dec(-25, 1)>> >>

NOther == 8

SamplePoints ==
  {OwnPoints[j] : j \in 1..Len(planets)} \cup
  {L1Points[j] : j \in 1..Len(planets)} \cup
  {OtherPoints[k] : k \in 1..MinI(NOther, Len(OtherPoints))}

ArchLocalsUnset ==
  /\ theta_local = Unset /\ r_local = Unset /\ x_c = Unset /\ y_c = Unset
  /\ r1 = Unset /\ r2 = Unset /\ pot = Unset /\ l1_E = Unset
  /\ norm_pot = Unset /\ radial_weight = Unset /\ angular_weight = Unset
  /\ total_weight = Unset

\* The state at the head of the loop: Z_comp = np.zeros_like(SX) - 200
ArchInit ==
  /\ \E sp \in SamplePoints : R_phys = sp[1] /\ Theta_scr = sp[2]
  /\ Z_comp = Sub(Zero, Dec(200, 0))
  /\ done = 0
  /\ hist = <<>>
  /\ ArchLocalsUnset

ArchIdle ==
  /\ R_phys = Unset /\ Theta_scr = Unset /\ Z_comp = Unset
  /\ done = 0
  /\ hist = <<>>
  /\ ArchLocalsUnset

\* theta_local = (theta_local + np.pi) % (2 * np.pi) - np.pi
NormalizeAngleOmitted(t) == t

NormalizeAngle(t) == Sub(Mod(Add(t, PI), TWO_PI), PI)

\* norm_pot * total_weight - (1-total_weight)*10
BlendTowardsPlus10(np, w) == Add(Mul(np, w), Mul(Sub(One, w), Dec(10, 0)))

Blend(np, w) == Sub(Mul(np, w), Mul(Sub(One, w), Dec(10, 0)))

\* Z_comp = np.maximum(Z_comp, ...)
CombineOverwrite(z, b) == b

Combine(z, b) == Maximum(z, b)

\* One iteration of `for p in planets`
Iterate ==
  /\ done < Len(planets)
  /\ LET p == planets[done + 1]
         sigma_r == Dec(15, 2)
         sigma_theta == Half
     IN  /\ theta_local' = NormalizeAngle(Sub(Theta_scr, p.angle))
         /\ r_local' = Div(R_phys, p.r)
         /\ x_c' = Mul(r_local', Cos(theta_local'))
         /\ y_c' = Mul(r_local', Sin(theta_local'))
         /\ r1' = Maximum(Sqrt(Add(Sq(Add(x_c', p.mu)), Sq(y_c'))), Dec(1, 4))
         /\ r2' = Maximum(Sqrt(Add(Sq(Sub(x_c', Sub(One, p.mu))), Sq(y_c'))),
                          Dec(1, 4))
         /\ pot' = Sub(Sub(Neg(Div(Sub(One, p.mu), r1')), Div(p.mu, r2')),
                       Mul(Half, Add(Sq(x_c'), Sq(y_c'))))
         /\ l1_E' = Sub(Dec(-15, 1), Cbrt(Div(p.mu, Dec(3, 0))))
         /\ norm_pot' = Div(Sub(pot', l1_E'), Cbrt(p.mu))
         /\ radial_weight' =
              Exp(Div(Neg(Sq(Sub(Ln(R_phys), Ln(p.r)))),
                      Mul(Dec(2, 0), Sq(sigma_r))))
         /\ angular_weight' =
              Exp(Div(Neg(Sq(theta_local')), Mul(Dec(2, 0), Sq(sigma_theta))))
         /\ total_weight' = Mul(radial_weight', angular_weight')
         /\ Z_comp' = Combine(Z_comp, Blend(norm_pot', total_weight'))
         /\ hist' = Append(hist, [l1_E |-> l1_E',
                                  norm_pot |-> norm_pot',
                                  total_weight |-> total_weight',
                                  blend |-> Blend(norm_pot', total_weight'),
                                  Z |-> Z_comp'])
  /\ done' = done + 1
  /\ UNCHANGED <<R_phys, Theta_scr>>

\* ------------------------------------------------------------------------
\* The three specifications
\* ------------------------------------------------------------------------

vars == <<fieldVars, lagrangeVars, archVars>>

Init == FieldInit /\ LagrangeIdle /\ ArchIdle

Next ==
  \/ CallGlobal /\ UNCHANGED <<lagrangeVars, archVars>>
  \/ CallZoom /\ UNCHANGED <<lagrangeVars, archVars>>

Spec == Init /\ [][Next]_vars

InitL == mu \in MuSamplesL /\ FieldIdle /\ LagrangeInit /\ ArchIdle

NextL ==
  \/ GlobalLagrange /\ UNCHANGED <<fieldVars, archVars>>
  \/ ZoomLagrange /\ UNCHANGED <<fieldVars, archVars>>

SpecL == InitL /\ [][NextL]_vars

InitA == mu = Zero /\ FieldIdle /\ LagrangeIdle /\ ArchInit

NextA == Iterate /\ UNCHANGED <<fieldVars, lagrangeVars>>

SpecA == InitA /\ [][NextA]_vars

\* ------------------------------------------------------------------------
\* Properties of the evaluators (Spec)
\* ------------------------------------------------------------------------

Returned == pc = "done" /\ ~Z.err

\* The coordinates that land on place k of the returned field
XAt(k) == At(X, Z.shape, k)
YAt(k) == At(Y, Z.shape, k)

\* C1: in every evaluator both distances are floored before they divide, so
\* the returned field is finite at every point, the primary's place (-mu, 0)
\* included.
C1_FiniteEverywhere ==
  Returned => \A k \in 1..Len(Z.val) : IsFinite(Z.val[k])

\* C2: at the secondary's place (1 - mu, 0) the returned value is finite,
\* negative, and equal to -(1 - mu)/1 - mu/epsilon - (1 - mu)^2/2, with the
\* evaluators' floor epsilon = 1e-6.
C2_ValueAtSecondary ==
  Returned =>
    \A k \in 1..Len(Z.val) :
      (XAt(k) = Sub(One, mu) /\ YAt(k) = Zero) =>
        /\ IsFinite(Z.val[k])
        /\ Lt(Z.val[k], Zero)
        /\ Z.val[k] = Sub(Sub(Neg(Div(Sub(One, mu), One)), Div(mu, Dec(1, 6))),
                          Div(Sq(Sub(One, mu)), Dec(2, 0)))

C2_Witness ==
  /\ Returned
  /\ \E k \in 1..Len(Z.val) : XAt(k) = Sub(One, mu) /\ YAt(k) = Zero

\* C7: coordinate arrays of unequal shape make the call fail with an error
\* and no field (no broadcasting of a column against a row or of a scalar
\* against an array); arrays of equal shape give a field of that shape.
C7_UnequalShapesFail ==
  pc = "done" =>
    IF X.shape = Y.shape THEN ~Z.err /\ Z.shape = X.shape ELSE Z.err

\* C8: for mu = 3.003e-6 on the 5x5 grid x in {0.98, ..., 1.02},
\* y in {-0.02, ..., 0.02} the field is finite at all 25 points and its
\* strict minimum is at the grid point (1.00, 0), the one nearest the
\* secondary.
C8_Scenario ==
  /\ mu = Dec(3003, 9)
  /\ <<X, Y>> = Meshgrid(
       <<Dec(98, 2), Dec(99, 2), One, Dec(101, 2), Dec(102, 2)>>,
       <<Dec(-2, 2), Dec(-1, 2), Zero, Dec(1, 2), Dec(2, 2)>>)

C8_MinimumAtSecondary ==
  (Returned /\ C8_Scenario) =>
    /\ Len(Z.val) = 25
    /\ \A k \in 1..25 : IsFinite(Z.val[k])
    /\ \E c \in 1..25 :
         /\ XAt(c) = One /\ YAt(c) = Zero
         /\ \A k \in 1..25 : k # c => Lt(Z.val[c], Z.val[k])

C8_Witness == Returned /\ C8_Scenario /\ fn = "get_potential"

\* C9: the field is symmetric under reflection across the x-axis:
\* Z(x, y) = Z(x, -y) at any two points of a call that mirror each other.
C9_Mirror(k, m) == XAt(k) = XAt(m) /\ YAt(k) = Neg(YAt(m))

C9_ReflectionSymmetry ==
  Returned =>
    \A k, m \in 1..Len(Z.val) : C9_Mirror(k, m) => Z.val[k] = Z.val[m]

C9_Witness ==
  /\ Returned
  /\ \E k, m \in 1..Len(Z.val) : C9_Mirror(k, m) /\ ~IsZero(YAt(k))

\* ------------------------------------------------------------------------
\* Properties of the Lagrange points (SpecL)
\* ------------------------------------------------------------------------

\* C3: both maps use one closed-form solver: with dist_L = (mu/3)^(1/3), L1 is
\* at (1 - mu) - dist_L and L2 at (1 - mu) + dist_L, L3 at -1 - 5 mu/12, L4
\* and L5 at (0.5 - mu, +-sqrt(3)/2); the global map and the zoom map give the
\* same L1 and L2 for the same mu.
C3_SameSolver ==
  (pcG = "done" /\ pcZ = "done") =>
    LET dist == Cbrt(Div(mu, Dec(3, 0)))
        sec == Sub(One, mu)
        h == Div(Sqrt(Dec(3, 0)), Dec(2, 0))
    IN  /\ points[1] = <<Sub(sec, dist), Zero, "L1">>
        /\ points[2] = <<Add(sec, dist), Zero, "L2">>
        /\ points[3] = <<Sub(Dec(-1, 0), Div(Mul(Dec(5, 0), mu), Dec(12, 0))),
                         Zero, "L3">>
        /\ points[4] = <<Sub(Half, mu), h, "L4">>
        /\ points[5] = <<Sub(Half, mu), Neg(h), "L5">>
        /\ L1_loc = Sub(sec, dist)
        /\ L2_loc = Add(sec, dist)
        /\ points[1][1] = L1_loc
        /\ points[2][1] = L2_loc

\* ------------------------------------------------------------------------
\* Properties of the composite map (SpecA)
\* ------------------------------------------------------------------------

Background == Dec(-200, 0)

Within(a, b, tol) == Le(Sub(a, b), tol) /\ Le(Sub(b, a), tol)

\* C4: Z_comp is the maximum of the background -200 and the blended values of
\* the planets processed so far (of all planets once the loop has ended); so
\* it is >= -200 and >= each of these blended values, and it never decreases
\* from one iteration to the next.
C4_CompositeIsMaximum ==
  LET cands == {Background} \cup {hist[j].blend : j \in 1..done}
  IN  /\ Len(hist) = done
      /\ Z_comp \in cands
      /\ \A c \in cands : Le(c, Z_comp)
      /\ \A j \in 1..done :
           Le(IF j = 1 THEN Background ELSE hist[j - 1].Z, hist[j].Z)
      /\ done > 0 => Z_comp = hist[done].Z

C4_Witness ==
  /\ done = Len(planets)
  /\ \E j \in 1..(done - 1) :
       Lt(hist[done].blend, hist[j].blend) /\ Z_comp = hist[j].blend

\* C5: at the screen point at a planet's orbital radius and angle that
\* planet's total mask weight is 1, and after the loop Z_comp there is that
\* planet's own norm_pot.
C5_OwnPoint ==
  \A j \in 1..Len(planets) :
    <<R_phys, Theta_scr>> = OwnPoints[j] =>
      /\ done >= j => hist[j].total_weight = One
      /\ done = Len(planets) => Z_comp = hist[j].norm_pot

C5_Witness ==
  /\ done = Len(planets)
  /\ <<R_phys, Theta_scr>> = OwnPoints[4]
  /\ Lt(Theta_scr, Zero)

\* C6: a planet's potential is normalised against the value of the potential
\* at its local L1 point ((1 - mu) - (mu/3)^(1/3), 0): norm_pot is 0 at that
\* point, and the reference level l1_E is the level C_L1 that the zoom map
\* computes for the same mass ratio.
C6_ZoomLevelL1 ==
  Tup([j \in 1..Len(planets) |->
        get_potential(
          Scalar(Sub(Sub(One, planets[j].mu),
                     Cbrt(Div(planets[j].mu, Dec(3, 0))))),
          Scalar(Zero), planets[j].mu).val[1]])

C6_NormalizedAtL1 ==
  \A j \in 1..done :
    /\ <<R_phys, Theta_scr>> = L1Points[j] =>
         Within(hist[j].norm_pot, Zero, Dec(1, 6))
    /\ Within(hist[j].l1_E, C6_ZoomLevelL1[j], Dec(1, 6))

\* C10: the de-rotated angle of the planet just processed lies in [-pi, pi),
\* differs from Theta_scr - angle by a multiple of 2 pi, and is 0 in the
\* planet's own direction.
C10_AngleNormalized ==
  done > 0 =>
    LET d == Sub(Theta_scr, planets[done].angle)
    IN  /\ Le(Neg(PI), theta_local)
        /\ Lt(theta_local, PI)
        /\ \E n \in -1..1 : theta_local = Add(d, Mul(Dec(n, 0), TWO_PI))
        /\ Theta_scr = Wrap(planets[done].angle) => IsZero(theta_local)

C10_Witness ==
  /\ done = Len(planets)
  /\ Theta_scr = Wrap(planets[done].angle)
  /\ theta_local # Sub(Theta_scr, planets[done].angle)

====
